---- MODULE Spec2Model ----
(***************************************************************************)
(* Model of doc/examples/scripts/batch_analyze.py: a script that globs the *)
(* working directory for Python files, runs the external `swissarmyhammer` *)
(* command once per file with subprocess.run, collects one record per file *)
(* and writes the list to analysis_results.json before printing a summary. *)
(*                                                                         *)
(* The script's environment is part of the model: the directory tree (as   *)
(* the ordered listing the filesystem enumerates), the behaviour of the    *)
(* external command for each file, and the results file on disk, which     *)
(* survives from one run of the script to the next.                        *)
(***************************************************************************)
EXTENDS Naturals, Sequences, FiniteSets

\* ---------------------------------------------------------------- bounds
MaxPy == 2          \* number of distinct *.py paths that may exist
MaxRuns == 2        \* runs of the script in one behaviour

\* ------------------------------------------------------------ environment
PyPaths == {<<n, "py">> : n \in 1..MaxPy}
OtherPaths == {<<1, "txt">>}
AllPaths == PyPaths \cup OtherPaths

\* How the external command behaves when given a file: it exits with status
\* 0, exits with a non-zero status, cannot be launched (subprocess.run
\* raises), or never terminates.
Behaviours == {"ok", "fail", "nolaunch", "hang"}

\* analysis_results.json: whether it exists and the chunks written to it.
Absent == [exists |-> FALSE, content |-> <<>>]
\* No file of a preceding run to compare with.
None == [set |-> FALSE, file |-> Absent]

VARIABLES
  tree,        \* directory listing: sequence of distinct paths, in scan order
  cmd,         \* behaviour of the external command on each existing *.py file
  disk,        \* analysis_results.json: Absent, or the chunks written to it
  fh,          \* TRUE while the script holds the results file open
  pc,          \* position of the script
  bound,       \* the module's global names assigned so far
  files,       \* the global `files` (meaningful once bound)
  i,           \* position of the list comprehension in `files`
  acc,         \* the list the comprehension is building
  results,     \* the global `results` (meaningful once bound)
  invoked,     \* this run's subprocess.run calls, in order
  procs,       \* indices into `invoked` of the external processes now running
  stdout,      \* lines this run printed (the summary line is its count)
  log,         \* history: what this run has done so far, in order
  runs,        \* number of runs started
  disk0,       \* history: the results file as this run found it
  stable,      \* the tree and the tool are as they were at the start
  once         \* history: file left by the preceding run, when that run
               \* completed and the environment has not changed

vars == <<tree, cmd, disk, fh, pc, bound, files, i, acc, results, invoked, procs,
          stdout, log, runs, disk0, stable, once>>

envVars == <<tree, cmd>>
histVars == <<disk0, stable, once>>

\* ---------------------------------------------------------------- helpers
Range(s) == {s[k] : k \in DOMAIN s}
Injective(s) == \A a, b \in DOMAIN s : s[a] = s[b] => a = b
Listings == {s \in UNION {[1..n -> AllPaths] : n \in 0..Cardinality(AllPaths)} :
               Injective(s)}

\* '**/*.py': the pattern matches on the suffix only.
Matches(p) == p[2] = "py"

\* glob.glob('**/*.py', recursive=True): the matching paths, in scan order.
Glob(listing) == SelectSeq(listing, Matches)

\* What the external process writes for `arg` and how it exits.
\* (fail: partial report on stdout, the error on stderr, status 1)
ProcStdout(arg, beh) == IF beh = "ok" THEN <<"review", arg>>
                        ELSE <<"partial", arg>>
ProcStderr(arg, beh) == IF beh = "ok" THEN <<>> ELSE <<"error", arg>>
ProcReturnCode(beh) == IF beh = "ok" THEN 0 ELSE 1

\* subprocess.run(..., capture_output=True, text=True) on normal completion:
\* the CompletedProcess, whatever the exit status (check=False).
CompletedProcess(inv) ==
  [args |-> inv.arg,
   returncode |-> ProcReturnCode(inv.beh),
   stdout |-> ProcStdout(inv.arg, inv.beh),
   stderr |-> ProcStderr(inv.arg, inv.beh)]

\* Mutation: the two captured streams land in each other's field.
RecordSwapped(filepath, result) ==
  [file |-> filepath, output |-> result.stderr, errors |-> result.stdout]

\* The dict analyze_file returns.
Record(filepath, result) ==
  [file |-> filepath, output |-> result.stdout, errors |-> result.stderr]

\* json.dump of one dict: its members in insertion order.
JsonObject(d) == <<<<"file", d.file>>, <<"output", d.output>>, <<"errors", d.errors>>>>

\* json.dump(results, f, indent=2): a JSON array, one object per record.
JsonDump(rs) == [k \in 1..Len(rs) |-> JsonObject(rs[k])]

\* Mutation: the file is opened with 'a', keeping what an earlier run wrote.
OpenForAppend(file) == [exists |-> TRUE, content |-> file.content]

\* open(name, 'w'): creates the file or truncates it to no content.
OpenForWrite(file) == [exists |-> TRUE, content |-> <<>>]

\* f.write at the current position of a file opened for writing.
WriteChunk(file, chunk) == [file EXCEPT !.content = Append(@, chunk)]

\* What the command may do when given path p now: what `cmd` says for a file
\* that exists, anything for a path that has been deleted since discovery.
BehaviourOn(p) == IF p \in DOMAIN cmd THEN {cmd[p]} ELSE Behaviours

\* ------------------------------------------------------------------- init
Init ==
  /\ tree \in Listings
  /\ cmd \in [Range(Glob(tree)) -> Behaviours]
  /\ disk = Absent
  /\ fh = FALSE
  /\ pc = "glob"
  /\ bound = {}
  /\ files = <<>>
  /\ i = 1
  /\ acc = <<>>
  /\ results = <<>>
  /\ invoked = <<>>
  /\ procs = {}
  /\ stdout = <<>>
  /\ log = <<>>
  /\ runs = 1
  /\ disk0 = Absent
  /\ stable = TRUE
  /\ once = None

\* ----------------------------------------------------------------- script
\* files = glob.glob('**/*.py', recursive=True)
Discover ==
  /\ pc = "glob"
  /\ files' = Glob(tree)
  /\ bound' = bound \cup {"files"}
  /\ i' = 1
  /\ acc' = <<>>
  /\ log' = Append(log, "glob")
  /\ pc' = "loop"
  /\ UNCHANGED <<disk, fh, results, invoked, procs, stdout, runs>>
  /\ UNCHANGED envVars /\ UNCHANGED histVars

\* Mutation: the command is started without waiting for it (Popen), so the
\* comprehension moves on to the next file with nothing captured.
SpawnNoWait ==
  /\ pc = "loop"
  /\ i <= Len(files)
  /\ \E b \in BehaviourOn(files[i]) \ {"nolaunch"} :
       invoked' = Append(invoked, [arg |-> files[i], beh |-> b])
  /\ procs' = procs \cup {Len(invoked) + 1}
  /\ acc' = Append(acc, [file |-> files[i], output |-> <<>>, errors |-> <<>>])
  /\ i' = i + 1
  /\ log' = Append(log, "spawn")
  /\ pc' = "loop"
  /\ UNCHANGED <<bound, disk, fh, files, results, stdout, runs>>
  /\ UNCHANGED envVars /\ UNCHANGED histVars

\* analyze_file(f), first half: subprocess.run launches the command for the
\* next file and blocks until it completes.
Spawn ==
  /\ pc = "loop"
  /\ i <= Len(files)
  /\ \E b \in BehaviourOn(files[i]) \ {"nolaunch"} :
       invoked' = Append(invoked, [arg |-> files[i], beh |-> b])
  /\ procs' = procs \cup {Len(invoked) + 1}
  /\ log' = Append(log, "spawn")
  /\ pc' = "wait"
  /\ UNCHANGED <<bound, disk, fh, files, i, acc, results, stdout, runs>>
  /\ UNCHANGED envVars /\ UNCHANGED histVars

\* Mutation: analyze_file catches the launch failure, records it and goes on.
SpawnRaisesCaught ==
  /\ pc = "loop"
  /\ i <= Len(files)
  /\ "nolaunch" \in BehaviourOn(files[i])
  /\ invoked' = Append(invoked, [arg |-> files[i], beh |-> "nolaunch"])
  /\ acc' = Append(acc, [file |-> files[i], output |-> <<>>,
                         errors |-> <<"error", files[i]>>])
  /\ i' = i + 1
  /\ log' = Append(log, "raise")
  /\ pc' = "loop"
  /\ UNCHANGED <<bound, disk, fh, files, results, procs, stdout, runs>>
  /\ UNCHANGED envVars /\ UNCHANGED histVars

\* analyze_file(f) when the command cannot be launched: subprocess.run raises,
\* nothing catches it, the comprehension's list is dropped and the script ends
\* with a traceback.
SpawnRaises ==
  /\ pc = "loop"
  /\ i <= Len(files)
  /\ "nolaunch" \in BehaviourOn(files[i])
  /\ invoked' = Append(invoked, [arg |-> files[i], beh |-> "nolaunch"])
  /\ acc' = <<>>
  /\ log' = Append(log, "raise")
  /\ pc' = "aborted"
  /\ UNCHANGED <<bound, disk, fh, files, i, results, procs, stdout, runs>>
  /\ UNCHANGED envVars /\ UNCHANGED histVars

\* Mutation: subprocess.run(..., check=True): a non-zero exit status raises.
ProcExitChecked ==
  /\ pc = "wait"
  /\ \E p \in procs :
       /\ invoked[p].beh # "hang"
       /\ procs' = procs \ {p}
       /\ IF ProcReturnCode(invoked[p].beh) = 0
            THEN /\ acc' = Append(acc, Record(files[i], CompletedProcess(invoked[p])))
                 /\ i' = i + 1
                 /\ pc' = "loop"
            ELSE /\ acc' = <<>>
                 /\ i' = i
                 /\ pc' = "aborted"
  /\ log' = Append(log, "exit")
  /\ UNCHANGED <<bound, disk, fh, files, results, invoked, stdout, runs>>
  /\ UNCHANGED envVars /\ UNCHANGED histVars

\* Mutation: subprocess.run(..., timeout=t): a process that does not terminate
\* is killed and the script goes on to the next file without a record of it.
ProcExitTimeout ==
  /\ pc = "wait"
  /\ \E p \in procs :
       /\ procs' = procs \ {p}
       /\ acc' = Append(acc, Record(files[i], CompletedProcess(invoked[p])))
  /\ i' = i + 1
  /\ log' = Append(log, "exit")
  /\ pc' = "loop"
  /\ UNCHANGED <<bound, disk, fh, files, results, invoked, stdout, runs>>
  /\ UNCHANGED envVars /\ UNCHANGED histVars

\* Mutation: the file list is globbed again after every file (a lazy or
\* refreshed listing) instead of being a snapshot.
ProcExitReglob ==
  /\ pc = "wait"
  /\ \E p \in procs :
       /\ invoked[p].beh # "hang"
       /\ procs' = procs \ {p}
       /\ acc' = Append(acc, Record(files[i], CompletedProcess(invoked[p])))
  /\ files' = Glob(tree)
  /\ i' = i + 1
  /\ log' = Append(log, "exit")
  /\ pc' = "loop"
  /\ UNCHANGED <<bound, disk, fh, results, invoked, stdout, runs>>
  /\ UNCHANGED envVars /\ UNCHANGED histVars

\* analyze_file(f), second half: the process exits (with any status),
\* subprocess.run returns and the record joins the comprehension's list.
ProcExit ==
  /\ pc = "wait"
  /\ \E p \in procs :
       /\ invoked[p].beh # "hang"
       /\ procs' = procs \ {p}
       /\ acc' = Append(acc, Record(files[i], CompletedProcess(invoked[p])))
  /\ i' = i + 1
  /\ log' = Append(log, "exit")
  /\ pc' = "loop"
  /\ UNCHANGED <<bound, disk, fh, files, results, invoked, stdout, runs>>
  /\ UNCHANGED envVars /\ UNCHANGED histVars

\* Mutation: records of invocations that reported errors are filtered out.
NoErrors(r) == r.errors = <<>>
CollectDropsFailures ==
  /\ pc = "loop"
  /\ i > Len(files)
  /\ results' = SelectSeq(acc, NoErrors)
  /\ bound' = bound \cup {"results"}
  /\ log' = log
  /\ pc' = "open"
  /\ UNCHANGED <<disk, fh, files, i, acc, invoked, procs, stdout, runs>>
  /\ UNCHANGED envVars /\ UNCHANGED histVars

\* The comprehension is exhausted: results = [...]
Collect ==
  /\ pc = "loop"
  /\ i > Len(files)
  /\ results' = acc
  /\ bound' = bound \cup {"results"}
  /\ log' = log
  /\ pc' = "open"
  /\ UNCHANGED <<disk, fh, files, i, acc, invoked, procs, stdout, runs>>
  /\ UNCHANGED envVars /\ UNCHANGED histVars

\* with open('analysis_results.json', 'w') as f:
Open ==
  /\ pc = "open"
  /\ disk' = OpenForWrite(disk)
  /\ fh' = TRUE
  /\ log' = Append(log, "open")
  /\ pc' = "dump"
  /\ UNCHANGED <<bound, files, i, acc, results, invoked, procs, stdout, runs>>
  /\ UNCHANGED envVars /\ UNCHANGED histVars

\* Mutation: the summary is printed inside the with block, before the file
\* is closed.
DumpThenPrint ==
  /\ pc = "dump"
  /\ disk' = WriteChunk(disk, JsonDump(results))
  /\ log' = Append(log, "write")
  /\ pc' = "print"
  /\ UNCHANGED <<bound, fh, files, i, acc, results, invoked, procs, stdout, runs>>
  /\ UNCHANGED envVars /\ UNCHANGED histVars

\* json.dump(results, f, indent=2)
Dump ==
  /\ pc = "dump"
  /\ disk' = WriteChunk(disk, JsonDump(results))
  /\ log' = Append(log, "write")
  /\ pc' = "close"
  /\ UNCHANGED <<bound, fh, files, i, acc, results, invoked, procs, stdout, runs>>
  /\ UNCHANGED envVars /\ UNCHANGED histVars

\* leaving the with block closes the file
Close ==
  /\ pc = "close"
  /\ fh' = FALSE
  /\ log' = Append(log, "close")
  /\ pc' = "print"
  /\ UNCHANGED <<bound, disk, files, i, acc, results, invoked, procs, stdout, runs>>
  /\ UNCHANGED envVars /\ UNCHANGED histVars

\* Mutation: the summary counts a fresh glob instead of the list analyzed.
SummaryReglob ==
  /\ pc = "print"
  /\ stdout' = Append(stdout, Len(Glob(tree)))
  /\ log' = Append(log, "print")
  /\ pc' = "done"
  /\ UNCHANGED <<bound, disk, fh, files, i, acc, results, invoked, procs, runs>>
  /\ UNCHANGED envVars /\ UNCHANGED histVars

\* print(f"Analyzed {len(files)} files. ...")
Summary ==
  /\ pc = "print"
  /\ stdout' = Append(stdout, Len(files))
  /\ log' = Append(log, "print")
  /\ pc' = "done"
  /\ UNCHANGED <<bound, disk, fh, files, i, acc, results, invoked, procs, runs>>
  /\ UNCHANGED envVars /\ UNCHANGED histVars

RunStep == Discover \/ Spawn \/ SpawnRaises \/ ProcExit \/ Collect
             \/ Open \/ Dump \/ Close \/ Summary

\* ------------------------------------------------------------ environment
\* The script is run again after a run that ended (normally or by the
\* uncaught exception): a fresh interpreter, the same directory.
Rerun ==
  /\ pc \in {"done", "aborted"}
  /\ runs < MaxRuns
  /\ runs' = runs + 1
  /\ pc' = "glob"
  /\ bound' = {}
  /\ files' = <<>>
  /\ i' = 1
  /\ acc' = <<>>
  /\ results' = <<>>
  /\ invoked' = <<>>
  /\ procs' = {}
  /\ stdout' = <<>>
  /\ log' = <<>>
  /\ disk0' = disk
  /\ once' = IF pc = "done" /\ stable THEN [set |-> TRUE, file |-> disk] ELSE None
  /\ stable' = stable
  /\ UNCHANGED <<disk, fh>>
  /\ UNCHANGED envVars

\* The environment changes at most once in a behaviour, at any moment: before,
\* during, between or after the runs.

\* A file appears in the tree (anywhere in the scan order); if it is a Python
\* file, the command has some behaviour on it.
CreateFile ==
  /\ stable
  /\ \E p \in AllPaths \ Range(tree), k \in 0..Len(tree) :
       /\ tree' = SubSeq(tree, 1, k) \o <<p>> \o SubSeq(tree, k + 1, Len(tree))
       /\ IF Matches(p)
            THEN \E b \in Behaviours :
                   cmd' = [q \in DOMAIN cmd \cup {p} |-> IF q = p THEN b ELSE cmd[q]]
            ELSE cmd' = cmd
  /\ stable' = FALSE
  /\ once' = None
  /\ UNCHANGED <<disk, fh, pc, bound, files, i, acc, results, invoked, procs,
                 stdout, log, runs, disk0>>

\* A file disappears from the tree.
DeleteFile ==
  /\ stable
  /\ \E k \in 1..Len(tree) :
       /\ tree' = SubSeq(tree, 1, k - 1) \o SubSeq(tree, k + 1, Len(tree))
       /\ cmd' = [q \in DOMAIN cmd \ {tree[k]} |-> cmd[q]]
  /\ stable' = FALSE
  /\ once' = None
  /\ UNCHANGED <<disk, fh, pc, bound, files, i, acc, results, invoked, procs,
                 stdout, log, runs, disk0>>

\* The external command starts behaving differently on some file (the file
\* was edited, the tool was installed, removed or upgraded).
ToolChange ==
  /\ stable
  /\ \E p \in DOMAIN cmd :
       \E b \in Behaviours \ {cmd[p]} : cmd' = [cmd EXCEPT ![p] = b]
  /\ stable' = FALSE
  /\ once' = None
  /\ UNCHANGED <<tree, disk, fh, pc, bound, files, i, acc, results, invoked, procs,
                 stdout, log, runs, disk0>>

Next == Discover \/ Spawn \/ SpawnRaises \/ ProcExit \/ Collect
          \/ Open \/ Dump \/ Close \/ Summary
          \/ Rerun \/ CreateFile \/ DeleteFile \/ ToolChange

Spec == Init /\ [][Next]_vars

\* The script's own steps are taken whenever they can be: the interpreter
\* runs the script to its end, and a process that terminates is reaped.
\* Nothing obliges a process to terminate, the environment to change or the
\* user to run the script again.
LiveSpec == Init /\ [][Next]_vars /\ WF_vars(RunStep)

\* ----------------------------------------------------------------- claims
IsPrefix(s, t) == Len(s) <= Len(t) /\ \A k \in 1..Len(s) : s[k] = t[k]
Front(s) == SubSeq(s, 1, Len(s) - 1)
Count(s, e) == Cardinality({k \in DOMAIN s : s[k] = e})

\* The records the run holds: the bound list, or the comprehension's so far.
Collected == IF "results" \in bound THEN results ELSE acc

\* The invocation made for the k-th file returned (with any exit status).
Returned(k) == k \notin procs /\ invoked[k].beh \in {"ok", "fail"}

\* The external process of the current invocation will never terminate.
Hung == \E p \in procs : invoked[p].beh = "hang"

\* The results file holding exactly one JSON array.
Holding(array) == [exists |-> TRUE, content |-> <<array>>]

\* The names of a JSON object's members, in order.
Keys(obj) == [j \in 1..Len(obj) |-> obj[j][1]]

\* The steps of a run over n files that is never interrupted.
ExpectedLog(n) ==
  [k \in 1..(2 * n + 5) |->
     IF k = 1 THEN "glob"
     ELSE IF k <= 2 * n + 1 THEN (IF k % 2 = 0 THEN "spawn" ELSE "exit")
     ELSE IF k = 2 * n + 2 THEN "open"
     ELSE IF k = 2 * n + 3 THEN "write"
     ELSE IF k = 2 * n + 4 THEN "close"
     ELSE "print"]

\* C1: once a run over N discovered files has written the results file (every
\* invocation having completed), the file holds one JSON array of exactly N
\* objects, the k-th one carrying the k-th discovered file, and every object
\* has exactly the members file, output, errors.
C1_OneRecordPerFile ==
  pc \in {"close", "print", "done"} =>
    /\ disk.exists
    /\ Len(disk.content) = 1
    /\ Len(disk.content[1]) = Len(files)
    /\ \A k \in 1..Len(files) :
         /\ Keys(disk.content[1][k]) = <<"file", "output", "errors">>
         /\ disk.content[1][k][1][2] = files[k]

C1_Witness ==
  /\ pc = "done"
  /\ Len(files) = 2
  /\ files[1][1] > files[2][1]
  /\ \E k \in 1..Len(tree) : ~Matches(tree[k])
  /\ \E k \in 1..2 : disk.content[1][k][3][2] # <<>>

\* C2 as stated: every invocation that failed, by a non-zero exit status or
\* by the command not running at all, has left a record of its file.
C2_Original ==
  \A k \in 1..Len(invoked) :
    (k \notin procs /\ invoked[k].beh \in {"fail", "nolaunch"}) =>
      /\ Len(Collected) >= k
      /\ Collected[k].file = invoked[k].arg

\* C2 (amended): a non-zero exit status is not raised: the invocation's record
\* is returned with the captured stderr, the run is never aborted by it (only
\* a command that cannot be launched aborts the run), and a run that reaches
\* its end has written the record of every file whose invocation exited
\* non-zero.
C2_NonZeroExitRecorded ==
  /\ pc = "aborted" => invoked[Len(invoked)].beh = "nolaunch"
  /\ pc # "aborted" =>
       \A k \in 1..Len(invoked) :
         (k \notin procs /\ invoked[k].beh = "fail") =>
           /\ Len(Collected) >= k
           /\ Collected[k].file = invoked[k].arg
           /\ Collected[k].errors = <<"error", invoked[k].arg>>
  /\ pc = "done" =>
       \A k \in 1..Len(invoked) :
         invoked[k].beh = "fail" =>
           disk.content[1][k] = <<<<"file", invoked[k].arg>>,
                                  <<"output", <<"partial", invoked[k].arg>>>>,
                                  <<"errors", <<"error", invoked[k].arg>>>>>>

C2_Witness ==
  /\ pc = "done"
  /\ Len(invoked) = 2
  /\ invoked[1].beh = "fail"
  /\ Len(disk.content[1]) = 2

\* C3: at most one external process runs at any moment, and it is the latest
\* invocation: every earlier invocation has completed and its record has been
\* captured before the next one is started.
C3_OneProcessAtATime ==
  /\ Cardinality(procs) <= 1
  /\ \A p \in procs :
       /\ p = Len(invoked)
       /\ Len(acc) = p - 1
       /\ \A k \in 1..(p - 1) : Returned(k)

C3_Witness ==
  /\ procs = {2}
  /\ Len(acc) = 1

\* C4: a run does its steps in the fixed order discover, invoke each file in
\* turn, open, write, close, print: nothing is invoked before discovery, the
\* results file is opened and written only after the last invocation has
\* completed, and the summary is printed only after the file is closed.
C4_PipelineOrder ==
  /\ "files" \notin bound => log = <<>>
  /\ "files" \in bound =>
       IF pc = "aborted"
         THEN /\ log # <<>>
              /\ log[Len(log)] = "raise"
              /\ IsPrefix(Front(log), ExpectedLog(Len(files)))
              /\ Len(log) <= 2 * Len(files) + 1
         ELSE IsPrefix(log, ExpectedLog(Len(files)))
  /\ Len(invoked) = Count(log, "spawn") + Count(log, "raise")
  /\ Len(Collected) = IF pc = "aborted" THEN 0 ELSE Count(log, "exit")
  /\ fh <=> (Count(log, "open") = 1 /\ Count(log, "close") = 0)
  /\ disk # disk0 => Count(log, "open") = 1
  /\ Count(log, "write") = 1 => disk = Holding(JsonDump(results))
  /\ stdout # <<>> <=> Count(log, "print") = 1

C4_Witness ==
  /\ pc = "done"
  /\ Len(files) = 2
  /\ log = <<"glob", "spawn", "exit", "spawn", "exit",
             "open", "write", "close", "print">>

C6_RecordMatchesInvocation ==
  "files" \in bound =>
    \A k \in 1..Len(Collected) :
      LET r == Collected[k] IN
        /\ r.file = files[k]
        /\ invoked[k].arg = r.file
        /\ r.output = ProcStdout(invoked[k].arg, invoked[k].beh)
        /\ r.errors = ProcStderr(invoked[k].arg, invoked[k].beh)
        /\ r.output[2] = r.file
        /\ r.errors # <<>> => r.errors[1] = "error" /\ r.errors[2] = r.file

C6_Witness ==
  /\ Len(Collected) = 2
  /\ Collected[1].errors # <<>>
  /\ Collected[2].errors = <<>>
  /\ Collected[1].file # Collected[2].file

\* C7: the count in the summary line equals the number of entries of the
\* array the same run wrote to the results file.
C7_CountMatchesFile ==
  stdout # <<>> =>
    /\ Len(stdout) = 1
    /\ Len(disk.content) = 1
    /\ stdout[1] = Len(disk.content[1])
    /\ stdout[1] = Len(results)

C7_Witness ==
  /\ stdout = <<2>>
  /\ Len(Glob(tree)) # 2

\* C8: an invocation that raises ends the run there: it is the last
\* invocation of the run, the results file is as the run found it (absent,
\* or what an earlier run left), the records collected so far are gone,
\* `results` was never bound and nothing was printed.
C8_RaiseAbortsRun ==
  /\ \A k \in 1..Len(invoked) :
       invoked[k].beh = "nolaunch" => pc = "aborted" /\ k = Len(invoked)
  /\ pc = "aborted" =>
       /\ invoked[Len(invoked)].beh = "nolaunch"
       /\ Len(invoked) = i
       /\ procs = {}
       /\ disk = disk0
       /\ ~fh
       /\ acc = <<>>
       /\ "results" \notin bound
       /\ stdout = <<>>

C8_Witness ==
  /\ pc = "aborted"
  /\ Len(invoked) = 2
  /\ disk0.exists
  /\ Len(disk0.content[1]) = 1

\* C9: the invocations of a run are exactly the files of the list discovery
\* returned, each once and in order; the list is fixed once discovery has
\* returned it, whatever happens to the tree; a completed run over N files
\* made N invocations, and with N = 0 it wrote an empty array and reported 0.
C9_Snapshot ==
  /\ [](("files" \in bound) =>
          /\ Len(invoked) <= Len(files)
          /\ \A k \in 1..Len(invoked) : invoked[k].arg = files[k]
          /\ \A k \in 1..Len(files) : Matches(files[k])
          /\ Injective(files))
  /\ [](pc = "done" =>
          /\ Len(invoked) = Len(files)
          /\ (Len(files) = 0 => disk = Holding(<<>>) /\ stdout = <<0>>))
  /\ [][("files" \in bound) /\ runs' = runs => files' = files]_vars

C9_Witness ==
  /\ pc = "done"
  /\ Len(files) = 1
  /\ Len(invoked) = 1
  /\ Len(Glob(tree)) = 2

\* C10: the results file is replaced, not appended to: after a completed run
\* it holds exactly that run's records, and when the preceding run completed
\* too and neither the tree nor the command's behaviour has changed since
\* that run began, the file is what the preceding run left.
C10_Replaces ==
  pc = "done" =>
    /\ disk = Holding(JsonDump(results))
    /\ Len(disk.content[1]) = Len(invoked)
    /\ once.set => disk = once.file

C10_Witness ==
  /\ pc = "done"
  /\ runs = 2
  /\ once.set
  /\ Len(disk.content[1]) = 2

====
